---- MODULE Spec2Model ----
(***************************************************************************)
(* Model of the Tauri commands of src-tauri/src/commands: the two GitHub   *)
(* directory-listing queries (fetch_available_skills,                      *)
(* fetch_mcp_marketplace), the model listing (list_anthropic_models) and   *)
(* the skill installer (install_skill).                                    *)
(*                                                                         *)
(* The remote servers, the process environment and the file system are the *)
(* environment of the commands: the response to the single GET of an       *)
(* invocation, the environment variables and the initial file system are   *)
(* drawn from bounded sets.                                                *)
(***************************************************************************)
EXTENDS Integers, Sequences, FiniteSets, TLC

VARIABLES
    op,        \* the command that ran last ("none" before any)
    pc,        \* position of the running command
    resp,      \* the outcome of the command's HTTP GET, fixed by the remote side
    requests,  \* number of HTTP requests issued by the running command
    outcome,   \* "none", "ok" or "err": the Result the command returned
    value,     \* payload of Ok(..)
    error,     \* payload of Err(..)
    api_key,   \* list_anthropic_models: the Option<String> argument
    env,       \* the process environment (std::env)
    key,       \* list_anthropic_models: the resolved key sent as x-api-key
    project_path, \* install_skill: argument
    skill_name,   \* install_skill: argument
    content,   \* install_skill: downloaded text
    depth,     \* install_skill: ancestors handled so far by create_dir_all
    dirs,      \* file system: the directories (resolved absolute paths)
    files,     \* file system: regular file path -> bytes
    rerun      \* install_skill: "again" for the run after an Ok run of the same
               \* skill and content, "retry" for the run after an interrupted
               \* run of the same skill, else "first"

vars == <<op, pc, resp, requests, outcome, value, error, api_key, env, key,
          project_path, skill_name, content, depth, dirs, files, rerun>>

(***************************************************************************)
(* Bounds of the model.                                                    *)
(***************************************************************************)
\* longest directory listing (JSON array) a response carries
MaxItems == 3
\* longest "data" array of a models page
MaxModels == 1

\* a field a JSON object does not have
Absent == "<absent>"
\* the status of a response that never arrived
NoStatus == 0 - 1

(***************************************************************************)
(* HTTP: the outcome of one GET (reqwest send().await).                    *)
(***************************************************************************)
Statuses == {200, 204, 301, 403, 404, 500}

\* StatusCode::is_success: 200..=299
is_success_wrong(status) == status < 400
is_success(status) == status >= 200 /\ status <= 299

(***************************************************************************)
(* JSON bodies. A body is [kind, items, page]: kind is "unreadable" (the   *)
(* bytes cannot be read), "malformed" (not JSON), "object" (a JSON object, *)
(* its fields in page) or "array" (a JSON array, its elements in items).   *)
(***************************************************************************)
NoPage == [data |-> <<>>, has_more |-> Absent, first_id |-> Absent,
           last_id |-> Absent]

Body(k, its, pg) == [kind |-> k, items |-> its, page |-> pg]

\* no body at all, and the text list_anthropic_models substitutes for a body
\* it cannot read (models.rs:49)
NoBody == Body("none", <<>>, NoPage)
UnknownError == Body("Unknown error", <<>>, NoPage)

TransportFailure == [failed |-> TRUE, status |-> NoStatus, body |-> NoBody]

Response(s, b) == [failed |-> FALSE, status |-> s, body |-> b]

SeqsUpTo(S, n) == UNION { [1..k -> S] : k \in 0..n }

(***************************************************************************)
(* Result<T, String>: outcome, value and error of a command.               *)
(***************************************************************************)
Unit == <<>>
NoError == [msg |-> "", status |-> NoStatus, text |-> NoBody]

Ok(v) == [outcome |-> "ok", value |-> v, error |-> NoError]
Err(m, s, t) == [outcome |-> "err", value |-> Unit,
                 error |-> [msg |-> m, status |-> s, text |-> t]]

(***************************************************************************)
(* skills.rs: GitHubContent, SkillInfo and the fallback list.              *)
(***************************************************************************)
\* The JSON objects a contents listing may hold: directories, a file, a
\* symlink, and four objects that each lack one field.
RawItems ==
    { [name |-> "filesystem", path |-> "src/filesystem", type |-> "dir",
       html_url |-> "https://x"],
      [name |-> "README.md", path |-> "src/README.md", type |-> "file",
       html_url |-> "https://y"],
      [name |-> "git", path |-> "src/git", type |-> "dir",
       html_url |-> "https://z"],
      [name |-> "latest", path |-> "src/latest", type |-> "symlink",
       html_url |-> "https://w"],
      [name |-> Absent, path |-> "src/a", type |-> "dir",
       html_url |-> "https://a"],
      [name |-> "b", path |-> Absent, type |-> "dir",
       html_url |-> "https://b"],
      [name |-> "c", path |-> "src/c", type |-> Absent,
       html_url |-> "https://c"],
      [name |-> "d", path |-> "src/d", type |-> "dir",
       html_url |-> Absent] }

ListingBodies ==
    { Body(k, <<>>, NoPage) : k \in {"unreadable", "malformed", "object"} }
    \cup { Body("array", s, NoPage) : s \in SeqsUpTo(RawItems, MaxItems) }

ListingResponses ==
    { TransportFailure }
    \cup { Response(s, b) : s \in Statuses, b \in ListingBodies }

\* #[derive(Deserialize)] struct GitHubContent: all four fields are required.
GitHubContentDecodesLenient(item) == item.type # Absent
GitHubContentDecodes(item) ==
    /\ item.name # Absent
    /\ item.path # Absent
    /\ item.type # Absent
    /\ item.html_url # Absent

\* response.json::<Vec<GitHubContent>>(): fails unless the body is readable,
\* is a JSON array and every element decodes.
DecodesAsContents(body) ==
    /\ body.kind = "array"
    /\ \A i \in 1..Len(body.items) : GitHubContentDecodes(body.items[i])

SkillInfo(n, d, u) == [name |-> n, description |-> d, url |-> u]

\* format!("<prefix>{}", arg)
Format(prefix, arg) == <<prefix, arg>>

\* The loops of skills.rs:53-61 and skills.rs:142-150: push one SkillInfo per
\* item whose content_type is "dir", in order.
RECURSIVE DirsOfNoFilter(_, _)
DirsOfNoFilter(items, prefix) ==
    IF items = <<>> THEN <<>>
    ELSE <<SkillInfo(Head(items).name, Format(prefix, Head(items).name),
                     Head(items).html_url)>>
         \o DirsOfNoFilter(Tail(items), prefix)

RECURSIVE DirsOf(_, _)
DirsOf(items, prefix) ==
    IF items = <<>> THEN <<>>
    ELSE LET item == Head(items)
             rest == DirsOf(Tail(items), prefix)
         IN IF item.type = "dir"
            THEN <<SkillInfo(item.name, Format(prefix, item.name), item.html_url)>>
                 \o rest
            ELSE rest

fallback_servers ==
    << SkillInfo("filesystem", <<"Read/Write local files">>,
           "https://github.com/modelcontextprotocol/servers/tree/main/src/filesystem"),
       SkillInfo("memory", <<"Graph-based memory">>,
           "https://github.com/modelcontextprotocol/servers/tree/main/src/memory"),
       SkillInfo("fetch", <<"Fetch web content">>,
           "https://github.com/modelcontextprotocol/servers/tree/main/src/fetch"),
       SkillInfo("postgres", <<"PostgreSQL Database">>,
           "https://github.com/modelcontextprotocol/servers/tree/main/src/postgres"),
       SkillInfo("sqlite", <<"SQLite Database">>,
           "https://github.com/modelcontextprotocol/servers/tree/main/src/sqlite"),
       SkillInfo("github", <<"GitHub API Integration">>,
           "https://github.com/modelcontextprotocol/servers/tree/main/src/github"),
       SkillInfo("slack", <<"Slack Integration">>,
           "https://github.com/modelcontextprotocol/servers/tree/main/src/slack"),
       SkillInfo("google-drive", <<"Google Drive Access">>,
           "https://github.com/modelcontextprotocol/servers/tree/main/src/google-drive") >>

\* fetch_available_skills, as a function of the outcome of its GET.
available_skills_result(r) ==
    IF r.failed THEN Err("transport", NoStatus, NoBody)
    ELSE IF ~is_success(r.status) THEN Err("GitHub API Error: ", r.status, NoBody)
    ELSE IF ~DecodesAsContents(r.body) THEN Err("decode", NoStatus, NoBody)
    ELSE Ok(DirsOf(r.body.items, "Official Skill: "))

\* fetch_mcp_marketplace, as a function of the outcome of its GET.
mcp_marketplace_propagates(r) ==
    IF r.failed THEN Err("transport", NoStatus, NoBody)
    ELSE IF ~is_success(r.status) THEN Ok(fallback_servers)
    ELSE IF DecodesAsContents(r.body)
         THEN LET servers == DirsOf(r.body.items, "Official MCP Server: ")
              IN IF servers = <<>> THEN Ok(fallback_servers) ELSE Ok(servers)
         ELSE Err("decode", NoStatus, NoBody)
mcp_marketplace_result(r) ==
    IF r.failed THEN Ok(fallback_servers)
    ELSE IF ~is_success(r.status) THEN Ok(fallback_servers)
    ELSE IF DecodesAsContents(r.body)
         THEN LET servers == DirsOf(r.body.items, "Official MCP Server: ")
              IN IF servers = <<>> THEN Ok(fallback_servers) ELSE Ok(servers)
         ELSE Ok(fallback_servers)

(***************************************************************************)
(* models.rs: list_anthropic_models.                                       *)
(***************************************************************************)
\* Option<String>::None, and the key of an invocation that resolved none
None == "<None>"
NoKey == "<no key>"
\* std::env: a variable that is not set, and one whose value is not Unicode
\* (env::var returns Err for both)
Unset == "<unset>"
NotUnicode == "<not unicode>"
\* a key HeaderValue::from_str rejects (it holds a line feed)
BadHeaderKey == "sk-line\nfeed"

ApiKeys == {None, "", "sk-arg", BadHeaderKey}
EnvValues == {Unset, NotUnicode, "", "sk-env-1", "sk-env-2"}
EnvNames == {"ANTHROPIC_API_KEY", "CLAUDE_API_KEY"}

\* env::var(name): Ok(value) or Err
env_var_ok(e, name) == e[name] \notin {Unset, NotUnicode}

\* models.rs:26-33. [found, key]
resolve_key_default(k, e) ==
    IF k # None THEN [found |-> TRUE, key |-> k]
    ELSE IF env_var_ok(e, "ANTHROPIC_API_KEY")
    THEN [found |-> TRUE, key |-> e["ANTHROPIC_API_KEY"]]
    ELSE IF env_var_ok(e, "CLAUDE_API_KEY")
    THEN [found |-> TRUE, key |-> e["CLAUDE_API_KEY"]]
    ELSE [found |-> TRUE, key |-> ""]
resolve_key(k, e) ==
    IF k # None THEN [found |-> TRUE, key |-> k]
    ELSE IF env_var_ok(e, "ANTHROPIC_API_KEY")
    THEN [found |-> TRUE, key |-> e["ANTHROPIC_API_KEY"]]
    ELSE IF env_var_ok(e, "CLAUDE_API_KEY")
    THEN [found |-> TRUE, key |-> e["CLAUDE_API_KEY"]]
    ELSE [found |-> FALSE, key |-> NoKey]

\* HeaderValue::from_str(&key) (models.rs:37): the empty string is a valid
\* header value, a string with a control character is not.
header_value_ok(k) == k # BadHeaderKey

\* The JSON objects a "data" array may hold: a model record, and one that
\* lacks a required field.
RawModels ==
    { [id |-> "claude-x", display_name |-> "Claude X",
       created_at |-> "2025-01-01", type |-> "model"],
      [id |-> "claude-y", display_name |-> Absent,
       created_at |-> "2025-02-02", type |-> "model"] }

RawPages ==
    [ data : SeqsUpTo(RawModels, MaxModels),
      has_more : {"true", "false", Absent},
      first_id : {"claude-x", Absent},
      last_id : {"claude-x", Absent} ]

ModelBodies ==
    { Body(k, <<>>, NoPage) : k \in {"unreadable", "malformed", "array"} }
    \cup { Body("object", <<>>, pg) : pg \in RawPages }

ModelResponses ==
    { TransportFailure }
    \cup { Response(s, b) : s \in Statuses, b \in ModelBodies }

\* #[derive(Deserialize)] struct ModelInfo: four required fields.
ModelInfoDecodes(m) ==
    /\ m.id # Absent
    /\ m.display_name # Absent
    /\ m.created_at # Absent
    /\ m.type # Absent

\* res.json::<ModelsResponse>(): data and has_more are required, the two
\* Option fields are None when the object lacks them.
DecodesAsModelsResponse(body) ==
    /\ body.kind = "object"
    /\ body.page.has_more # Absent
    /\ \A i \in 1..Len(body.page.data) : ModelInfoDecodes(body.page.data[i])

ModelInfo(m) == [id |-> m.id, display_name |-> m.display_name,
                 created_at |-> m.created_at, model_type |-> m.type]

ModelsResponse(pg) ==
    [ data |-> [i \in 1..Len(pg.data) |-> ModelInfo(pg.data[i])],
      has_more |-> (pg.has_more = "true"),
      first_id |-> IF pg.first_id = Absent THEN None ELSE pg.first_id,
      last_id |-> IF pg.last_id = Absent THEN None ELSE pg.last_id ]

\* res.text().await.unwrap_or_else(|_| "Unknown error") (models.rs:49)
error_text(body) == IF body.kind = "unreadable" THEN UnknownError ELSE body

\* models.rs:41-54, as a function of the outcome of the GET.
models_fallback_on_error(r) ==
    IF r.failed \/ ~is_success(r.status) \/ ~DecodesAsModelsResponse(r.body)
    THEN Ok(ModelsResponse(NoPage))
    ELSE Ok(ModelsResponse(r.body.page))
models_response_result(r) ==
    IF r.failed THEN Err("transport", NoStatus, NoBody)
    ELSE IF ~is_success(r.status)
    THEN Err("API request failed: ", NoStatus, error_text(r.body))
    ELSE IF ~DecodesAsModelsResponse(r.body) THEN Err("decode", NoStatus, NoBody)
    ELSE Ok(ModelsResponse(r.body.page))

CredentialMissing == "No API key provided and none found in environment variables"

(***************************************************************************)
(* skills.rs: install_skill, and the file system it writes.                *)
(*                                                                         *)
(* A path is the sequence of its components below "/". A skill name is a   *)
(* string used as a path: [abs, comps], abs for a name that starts with    *)
(* "/". The file system is the set dirs of directories and the function    *)
(* files from the paths of regular files to their bytes; both hold         *)
(* resolved paths (no ".." component). There are no symbolic links.        *)
(***************************************************************************)
ProjectPath == <<"proj">>

SkillNames ==
    { [abs |-> FALSE, comps |-> <<"pdf">>],
      [abs |-> FALSE, comps |-> <<"..", "..", "..", "tmp">>],
      [abs |-> TRUE, comps |-> <<"etc">>] }

Text(t) == Body("text", <<t>>, NoPage)
\* the bytes of a file that was created or truncated and not yet written
EmptyFile == Body("text", <<>>, NoPage)

InstallBodies == { Body("unreadable", <<>>, NoPage), Text("v1"), Text("v2") }

InstallResponses ==
    { TransportFailure }
    \cup { Response(s, b) : s \in {200, 404}, b \in InstallBodies }

\* skills.rs:203-218: the GET succeeded and its text was read
download_ok_any_status(r) == ~r.failed /\ r.body.kind # "unreadable"
download_ok(r) == ~r.failed /\ is_success(r.status) /\ r.body.kind # "unreadable"

\* skills.rs:203-218, as a function of the outcome of the GET (the Err cases)
download_error(r) ==
    IF r.failed THEN Err("transport", NoStatus, NoBody)
    ELSE IF ~is_success(r.status)
    THEN Err("Failed to download SKILL.md: ", r.status, NoBody)
    ELSE Err("body", NoStatus, NoBody)

\* PathBuf::push: an absolute argument replaces the path
push(path, arg) == IF arg.abs THEN arg.comps ELSE path \o arg.comps

Rel(c) == [abs |-> FALSE, comps |-> <<c>>]

\* skills.rs:221-224
skill_dir(root, name) == push(push(push(root, Rel(".claude")), Rel("skills")), name)
\* skills.rs:229
skill_file(root, name) == push(skill_dir(root, name), Rel("SKILL.md"))

\* the path the kernel resolves a path to: ".." steps to the parent, and the
\* parent of "/" is "/"
RECURSIVE Resolve(_)
Resolve(path) ==
    IF path = <<>> THEN <<>>
    ELSE LET init == Resolve(SubSeq(path, 1, Len(path) - 1))
             last == path[Len(path)]
         IN IF last = ".."
            THEN (IF init = <<>> THEN <<>> ELSE SubSeq(init, 1, Len(init) - 1))
            ELSE Append(init, last)

IsPrefix(a, b) == Len(a) <= Len(b) /\ SubSeq(b, 1, Len(a)) = a

WriteFile(fs, path, bytes) ==
    [f \in DOMAIN fs \cup {path} |-> IF f = path THEN bytes ELSE fs[f]]

\* File::create of fs::write refuses a directory and a missing parent
can_create_only_new(path) ==
    /\ path \notin dirs
    /\ path \notin DOMAIN files
    /\ SubSeq(path, 1, Len(path) - 1) \in dirs
can_create(path) ==
    /\ path \notin dirs
    /\ SubSeq(path, 1, Len(path) - 1) \in dirs

\* one mkdir of fs::create_dir_all: the ancestor exists as a directory, or is
\* created, or is in the way as a regular file
mkdir_ok(path) == path \in dirs \/ path \notin DOMAIN files

\* what a command leaves alone
InstallIdle == /\ project_path' = project_path /\ skill_name' = skill_name
               /\ content' = content /\ depth' = depth
               /\ dirs' = dirs /\ files' = files /\ rerun' = rerun
ModelsIdle == /\ api_key' = api_key /\ env' = env /\ key' = key

Returns(res) ==
    /\ outcome' = res.outcome
    /\ value' = res.value
    /\ error' = res.error

fetch_available_skills ==
    /\ pc = "idle"
    /\ op' = "fetch_available_skills"
    /\ requests' = requests + 1
    /\ Returns(available_skills_result(resp))
    /\ pc' = "done"
    /\ resp' = resp
    /\ InstallIdle /\ ModelsIdle

fetch_mcp_marketplace ==
    /\ pc = "idle"
    /\ op' = "fetch_mcp_marketplace"
    /\ requests' = requests + 1
    /\ Returns(mcp_marketplace_result(resp))
    /\ pc' = "done"
    /\ resp' = resp
    /\ InstallIdle /\ ModelsIdle

list_anthropic_models ==
    /\ pc = "idle"
    /\ op' = "list_anthropic_models"
    /\ LET k == resolve_key(api_key, env)
       IN IF ~k.found
          THEN /\ Returns(Err(CredentialMissing, NoStatus, NoBody))
               /\ key' = NoKey
               /\ requests' = requests
          ELSE IF ~header_value_ok(k.key)
          THEN /\ Returns(Err("invalid header value", NoStatus, NoBody))
               /\ key' = k.key
               /\ requests' = requests
          ELSE /\ Returns(models_response_result(resp))
               /\ key' = k.key
               /\ requests' = requests + 1
    /\ pc' = "done"
    /\ resp' = resp
    /\ api_key' = api_key /\ env' = env
    /\ InstallIdle

ListingIdle == /\ requests' = requests /\ value' = value /\ error' = error

\* skills.rs:194-218: the download. An Err returns before any file system call.
install_skill_download ==
    /\ pc = "idle"
    /\ \E name \in SkillNames, r \in InstallResponses :
         /\ skill_name' = name
         /\ resp' = r
         /\ rerun' = IF /\ name = skill_name /\ outcome = "ok"
                        /\ ~r.failed /\ r.status \in 200..299
                        /\ r.body = content
                     THEN "again"
                     ELSE IF name = skill_name /\ outcome = "crashed"
                     THEN "retry"
                     ELSE "first"
         /\ IF download_ok(r)
            THEN /\ content' = r.body
                 /\ pc' = "create_dir_all"
                 /\ outcome' = "running"
                 /\ error' = NoError
            ELSE /\ content' = NoBody
                 /\ pc' = "idle"
                 /\ outcome' = "err"
                 /\ error' = download_error(r).error
    /\ op' = "install_skill"
    /\ requests' = 1
    /\ depth' = 0
    /\ value' = Unit
    /\ UNCHANGED <<project_path, dirs, files>>
    /\ ModelsIdle

\* skills.rs:226: fs::create_dir_all(&dest_path), one ancestor at a time from
\* the shallowest.
create_dir_all ==
    /\ pc = "create_dir_all"
    /\ LET dest == skill_dir(project_path, skill_name)
       IN IF depth = Len(dest)
          THEN /\ pc' = "open"
               /\ UNCHANGED <<depth, dirs, outcome, error>>
          ELSE LET dir == Resolve(SubSeq(dest, 1, depth + 1))
               IN IF mkdir_ok(dir)
                  THEN /\ dirs' = dirs \cup {dir}
                       /\ depth' = depth + 1
                       /\ UNCHANGED <<pc, outcome, error>>
                  ELSE /\ pc' = "idle"
                       /\ outcome' = "err"
                       /\ error' = Err("create_dir_all", NoStatus, NoBody).error
                       /\ UNCHANGED <<depth, dirs>>
    /\ UNCHANGED <<op, resp, requests, value, project_path, skill_name, content,
                   files, rerun>>
    /\ ModelsIdle

\* skills.rs:230: fs::write opens the file with create and truncate ...
fs_write_open ==
    /\ pc = "open"
    /\ LET dest == Resolve(skill_file(project_path, skill_name))
       IN IF can_create(dest)
          THEN /\ files' = WriteFile(files, dest, EmptyFile)
               /\ pc' = "write"
               /\ UNCHANGED <<outcome, error>>
          ELSE /\ pc' = "idle"
               /\ outcome' = "err"
               /\ error' = Err("write", NoStatus, NoBody).error
               /\ UNCHANGED files
    /\ UNCHANGED <<op, resp, requests, value, project_path, skill_name, content,
                   depth, dirs, rerun>>
    /\ ModelsIdle

\* ... and writes the whole content; then install_skill returns Ok(()).
fs_write_all ==
    /\ pc = "write"
    /\ LET dest == Resolve(skill_file(project_path, skill_name))
       IN files' = WriteFile(files, dest, content)
    /\ pc' = "idle"
    /\ outcome' = "ok"
    /\ UNCHANGED <<op, resp, requests, value, error, project_path, skill_name,
                   content, depth, dirs, rerun>>
    /\ ModelsIdle

\* The process stops after fs::create_dir_all returned and before fs::write
\* finished: the file system stays as it is.
Crash ==
    /\ pc \in {"open", "write"}
    /\ pc' = "idle"
    /\ outcome' = "crashed"
    /\ UNCHANGED <<op, resp, requests, value, error, project_path, skill_name,
                   content, depth, dirs, files, rerun>>
    /\ ModelsIdle

(***************************************************************************)
(* Specifications: one per group of commands.                              *)
(***************************************************************************)
InitCommon ==
    /\ op = "none"
    /\ pc = "idle"
    /\ requests = 0
    /\ outcome = "none"
    /\ value = Unit
    /\ error = NoError
    /\ key = NoKey
    /\ project_path = ProjectPath
    /\ skill_name = Rel("")
    /\ content = NoBody
    /\ depth = 0
    /\ rerun = "first"

EmptyFs == [f \in {} |-> EmptyFile]

InitCatalog ==
    /\ InitCommon
    /\ resp \in ListingResponses
    /\ api_key = None
    /\ env = [n \in EnvNames |-> Unset]
    /\ dirs = {<<>>, ProjectPath}
    /\ files = EmptyFs

InitModels ==
    /\ InitCommon
    /\ resp \in ModelResponses
    /\ api_key \in ApiKeys
    /\ env \in [EnvNames -> EnvValues]
    /\ dirs = {<<>>, ProjectPath}
    /\ files = EmptyFs

\* The file systems install_skill may find: the project directory alone, a
\* SKILL.md of an earlier version, a regular file named .claude, and a
\* directory where SKILL.md is to be written.
InitialFs ==
    LET claude == ProjectPath \o <<".claude">>
        skills == claude \o <<"skills">>
        pdf == skills \o <<"pdf">>
        md == pdf \o <<"SKILL.md">>
        base == {<<>>, ProjectPath}
    IN { [dirs |-> base, files |-> EmptyFs],
         [dirs |-> base \cup {claude, skills, pdf},
          files |-> WriteFile(EmptyFs, md, Text("old"))],
         [dirs |-> base, files |-> WriteFile(EmptyFs, claude, Text("old"))],
         [dirs |-> base \cup {claude, skills, pdf, md}, files |-> EmptyFs] }

InitInstall ==
    /\ InitCommon
    /\ resp = TransportFailure
    /\ api_key = None
    /\ env = [n \in EnvNames |-> Unset]
    /\ \E fs \in InitialFs : dirs = fs.dirs /\ files = fs.files

NextCatalog == fetch_available_skills \/ fetch_mcp_marketplace

NextModels == list_anthropic_models

NextInstall ==
    \/ install_skill_download
    \/ create_dir_all
    \/ fs_write_open
    \/ fs_write_all
    \/ Crash

SpecCatalog == InitCatalog /\ [][NextCatalog]_vars

SpecModels == InitModels /\ [][NextModels]_vars

SpecInstall == InitInstall /\ [][NextInstall]_vars

(***************************************************************************)
(* The properties.                                                         *)
(***************************************************************************)
Done(command) == pc = "done" /\ op = command

\* what the properties call a success status, a complete listing element, a
\* well-formed listing and a directory element
SuccessStatus(r) == r.status \in 200..299
Complete(item) ==
    \A f \in {"name", "path", "type", "html_url"} : item[f] # Absent
WellFormedListing(body) ==
    body.kind = "array" /\ \A i \in 1..Len(body.items) : Complete(body.items[i])
IsDir(item) == item.type = "dir"
DirEntries(body) == SelectSeq(body.items, IsDir)
Names(catalog) == [i \in 1..Len(catalog) |-> catalog[i].name]
IsLive(entry) == entry.description[1] \in {"Official MCP Server: ", "Official Skill: "}

\* C1: when the GET of fetch_mcp_marketplace fails in transport or answers
\* with a status that is not a success status, the command returns Ok with
\* exactly the fallback list, its 8 entries in their declared order, and no
\* entry made from the response.
C1_FallbackOnFailure ==
    (Done("fetch_mcp_marketplace") /\ (resp.failed \/ ~SuccessStatus(resp)))
    => /\ outcome = "ok"
       /\ value = fallback_servers
       /\ Names(value) = <<"filesystem", "memory", "fetch", "postgres", "sqlite",
                           "github", "slack", "google-drive">>
       /\ \A i \in 1..Len(value) : ~IsLive(value[i])

C1_Witness ==
    /\ Done("fetch_mcp_marketplace")
    /\ ~resp.failed /\ resp.status = 403
    /\ WellFormedListing(resp.body) /\ DirEntries(resp.body) # <<>>
    /\ outcome = "ok" /\ Len(value) = 8

C3_ExactlyTheDirs ==
    (/\ pc = "done"
     /\ op \in {"fetch_mcp_marketplace", "fetch_available_skills"}
     /\ ~resp.failed /\ SuccessStatus(resp)
     /\ WellFormedListing(resp.body)
     /\ DirEntries(resp.body) # <<>>)
    => LET ds == DirEntries(resp.body)
       IN /\ outcome = "ok"
          /\ Len(value) = Len(ds)
          /\ \A i \in 1..Len(ds) :
                /\ value[i].name = ds[i].name
                /\ value[i].url = ds[i].html_url
                /\ \A j \in 1..Len(fallback_servers) : value[i] # fallback_servers[j]

C3_Witness ==
    /\ Done("fetch_mcp_marketplace")
    /\ ~resp.failed /\ resp.status = 200
    /\ WellFormedListing(resp.body)
    /\ Len(resp.body.items) = 3
    /\ resp.body.items[1].name = "git"
    /\ resp.body.items[2].type = "file"
    /\ resp.body.items[3].name = "filesystem"
    /\ Names(value) = <<"git", "filesystem">>

\* C4: for a success response, fetch_mcp_marketplace returns the fallback
\* list when the body does not decode as a listing (one element that lacks a
\* field is enough) and when the listing holds no "dir" element; it never
\* returns an empty catalog.
C4_FallbackOnUndecodableOrEmpty ==
    Done("fetch_mcp_marketplace")
    => /\ outcome = "ok" => value # <<>>
       /\ (/\ ~resp.failed /\ SuccessStatus(resp)
           /\ \/ ~WellFormedListing(resp.body)
              \/ DirEntries(resp.body) = <<>>)
          => (outcome = "ok" /\ value = fallback_servers)

C4_Witness ==
    /\ Done("fetch_mcp_marketplace")
    /\ ~resp.failed /\ resp.status = 200
    /\ resp.body.kind = "array"
    /\ Len(resp.body.items) = 2
    /\ Complete(resp.body.items[1]) /\ IsDir(resp.body.items[1])
    /\ resp.body.items[2].name = Absent
    /\ value = fallback_servers

\* C5: with no explicit key and neither environment variable set,
\* list_anthropic_models fails with the credential-missing error and issues
\* no HTTP request.
C5_NoCredentialNoRequest ==
    (/\ Done("list_anthropic_models")
     /\ api_key = None
     /\ \A n \in EnvNames : env[n] = Unset)
    => /\ outcome = "err"
       /\ error.msg = CredentialMissing
       /\ requests = 0

C5_Witness ==
    /\ Done("list_anthropic_models")
    /\ api_key = None
    /\ \A n \in EnvNames : env[n] = Unset
    /\ ~resp.failed /\ resp.status = 200 /\ resp.body.kind = "object"
    /\ resp.body.page.has_more = "true"
    /\ outcome = "err"

\* The credential C6 describes: the explicit key when present and non-empty,
\* else the first of ANTHROPIC_API_KEY, CLAUDE_API_KEY that is set and
\* non-empty, else none.
Usable(v) == v \notin {Unset, NotUnicode, ""}
C6_Credential ==
    IF api_key \notin {None, ""} THEN api_key
    ELSE IF Usable(env["ANTHROPIC_API_KEY"]) THEN env["ANTHROPIC_API_KEY"]
    ELSE IF Usable(env["CLAUDE_API_KEY"]) THEN env["CLAUDE_API_KEY"]
    ELSE NoKey

\* C6 as stated: list_anthropic_models uses the explicit key when it is
\* present and non-empty, otherwise the first environment variable that is
\* set and non-empty (ANTHROPIC_API_KEY, then CLAUDE_API_KEY), and fails with
\* the credential-missing error when there is none.
C6_CredentialResolution ==
    Done("list_anthropic_models")
    => IF C6_Credential = NoKey
       THEN outcome = "err" /\ error.msg = CredentialMissing /\ requests = 0
       ELSE key = C6_Credential

Returned == op = "install_skill" /\ pc = "idle" /\ outcome \in {"ok", "err"}
Beneath(root, path) == IsPrefix(root, path)
Dest == ProjectPath \o <<".claude", "skills">> \o skill_name.comps \o <<"SKILL.md">>

\* C8 as stated: whatever the skill name, every directory and every file of
\* the file system other than "/" lies beneath the project directory (the
\* initial ones do), and a file install_skill wrote is
\* <project>/.claude/skills/<name>/SKILL.md.
C8_WritesStayBeneathRoot ==
    /\ \A d \in dirs : d = <<>> \/ Beneath(ProjectPath, d)
    /\ \A f \in DOMAIN files : Beneath(ProjectPath, f)
    /\ (op = "install_skill" /\ pc = "idle" /\ outcome = "ok")
       => (Dest \in DOMAIN files /\ files[Dest] = content)

C10_DownloadPrecedesWrites ==
    [][ /\ (/\ pc = "idle"
            /\ (resp'.failed \/ ~SuccessStatus(resp')
                \/ resp'.body.kind = "unreadable"))
           => (/\ pc' = "idle" /\ outcome' = "err"
               /\ dirs' = dirs /\ files' = files)
        /\ (dirs' # dirs \/ files' # files)
           => (/\ ~resp.failed /\ SuccessStatus(resp)
               /\ resp.body.kind # "unreadable"
               /\ requests = 1
               /\ content = resp.body) ]_vars

C10_Witness ==
    /\ Returned
    /\ outcome = "err"
    /\ ~resp.failed /\ resp.status = 404 /\ resp.body = Text("v1")
    /\ skill_name.comps = <<"pdf">>
    /\ Dest \in DOMAIN files /\ files[Dest] = Text("old")
    /\ ProjectPath \o <<".claude", "skills", "pdf">> \in dirs

====
